---- MODULE Spec2Model ----
(***************************************************************************)
(* Model of the sos report plugin AAPContainerized                         *)
(* (sos/report/plugins/aap_containerized.py).                              *)
(*                                                                         *)
(* The plugin only talks to collaborators of the Plugin base class.  Every *)
(* collaborator call is appended to the history variable `calls`, so the   *)
(* order, the number and the arguments of the calls can be stated.         *)
(*                                                                         *)
(* Text is modelled as sequences: a command output is a sequence of        *)
(* characters, a path is a sequence of path segments, the process table is *)
(* a sequence of words.                                                    *)
(***************************************************************************)
EXTENDS Integers, Sequences, FiniteSets, TLC

VARIABLES
    username,            \* option "username"
    directory,           \* option "directory" (a path, <<>> when unset)
    pc,                  \* position in setup / check_enabled
    aap_directory_name,  \* local of setup
    calls,               \* history of collaborator calls, in order
    cmd_out,             \* outcome of exec_cmd in _get_aap_container_names
    aap_containers,      \* local of setup
    i,                   \* index of the running for loop
    ps_output,           \* outcome of exec_cmd in check_enabled
    ret                  \* value returned by check_enabled

vars == <<username, directory, pc, aap_directory_name, calls, cmd_out,
          aap_containers, i, ps_output, ret>>

----------------------------------------------------------------------------
(* Bounds of the model *)

\* longest output of the container listing command, in characters
MaxOutLen == 4

\* longest process table, in words
MaxPsLen == 4

----------------------------------------------------------------------------
(* Inputs *)

\* values of the option "username"; "" is the default (unset)
Usernames == {"", "alice", "svc"}

\* os.path.expanduser("~" + user): the home directory of the user
HomeOf(user) ==
    IF user = "alice" THEN <<"home", "alice">> ELSE <<"var", "lib", user>>

\* values of the option "directory"; <<>> is the default (unset)
Directories == {<<>>, <<"srv", "custom">>, <<"home", "alice", "aap">>}

\* characters of a listing output
OutChars == {"a", "b", " ", "\n"}

\* words of a process table
PsWords == {"dumb-init", "--", "/usr/bin/envoy", "/usr/bin/supervisord",
            "/usr/bin/launch_awx_web.sh", "/usr/bin/launch_awx_task.sh",
            "pulpcore-content", "--name", "pulp-content", "--bind",
            "aap-eda-manage", "sshd"}

\* exit statuses a command can end with
Statuses == {0, 1}

SeqsUpTo(S, n) == UNION {[1..k -> S] : k \in 0..n}

\* what exec_cmd can do: return a status and the output, or raise
ExecOutcomes(texts) ==
    [raised : {FALSE}, status : Statuses, output : texts]
        \cup {[raised |-> TRUE, status |-> 0, output |-> <<>>]}

\* no command has run yet
NoOutcome == [raised |-> FALSE, status |-> -1, output |-> <<>>]

----------------------------------------------------------------------------
(* Collaborator calls *)

Call(op) ==
    [op |-> op, user |-> "", path |-> <<>>, paths |-> <<>>, cmd |-> "",
     arg |-> <<>>, filename |-> <<>>, subdir |-> "", msg |-> "",
     result |-> ""]

MsgNoUsername ==
    "Username is mandatory to collect AAP containerized setup logs"

MsgNoDirectory ==
    "Directory does not exist or invalid absolute path provided"

MsgEnumeration == "Error retrieving Podman containers"

LogError(msg, path) == [Call("_log_error") EXCEPT !.msg = msg, !.path = path]

\* f"su - {username} -c '{cmd}{arg}'" handed to add_cmd_output
AddCmdOutputCall(user, cmd, arg, filename, subdir) ==
    [Call("add_cmd_output") EXCEPT !.user = user, !.cmd = cmd, !.arg = arg,
                                   !.filename = filename, !.subdir = subdir]

\* Plugin.path_join: the path followed by the relative path
path_join(path, rel) == path \o rel

----------------------------------------------------------------------------
(* Text functions of Python used by the plugin *)

IsSpace(c) == c \in {" ", "\n"}

RECURSIVE LStrip(_)
LStrip(s) == IF s # <<>> /\ IsSpace(Head(s)) THEN LStrip(Tail(s)) ELSE s

RECURSIVE RStrip(_)
RStrip(s) ==
    IF s # <<>> /\ IsSpace(s[Len(s)])
    THEN RStrip(SubSeq(s, 1, Len(s) - 1))
    ELSE s

\* str.strip()
Strip(s) == RStrip(LStrip(s))

\* str.split(sep): the pieces between the separators, at least one piece
RECURSIVE Split(_, _)
Split(s, sep) ==
    IF \E k \in 1..Len(s) : s[k] = sep
    THEN LET k == CHOOSE k \in 1..Len(s) :
                      s[k] = sep /\ \A j \in 1..(k - 1) : s[j] # sep
         IN  <<SubSeq(s, 1, k - 1)>> \o Split(SubSeq(s, k + 1, Len(s)), sep)
    ELSE <<s>>

\* `sub in text`
Contains(text, sub) ==
    \E k \in 0..(Len(text) - Len(sub)) : SubSeq(text, k + 1, k + Len(sub)) = sub

----------------------------------------------------------------------------
(* Tables of the plugin *)

\* the relative paths joined to the installation directory in setup
ForbiddenTemplatesShort ==
    << <<"containers">>,
       <<"tls">>,
       <<"controller", "etc", "*.cert">>,
       <<"controller", "etc", "*.key">>,
       <<"eda", "etc", "*.cert">>,
       <<"eda", "etc", "*.key">>,
       <<"gateway", "etc", "*.cert">>,
       <<"gateway", "etc", "*.key">>,
       <<"hub", "etc", "*.cert">>,
       <<"hub", "etc", "*.key">>,
       <<"hub", "etc", "keys", "*.pem">>,
       <<"postgresql", "*.crt">>,
       <<"postgresql", "*.key">>,
       <<"receptor", "etc", "*.crt">>,
       <<"receptor", "etc", "*.key">>,
       <<"receptor", "etc", "*.pem">>,
       <<"redis", "*.crt">> >>

ForbiddenTemplates ==
    << <<"containers">>,
       <<"tls">>,
       <<"controller", "etc", "*.cert">>,
       <<"controller", "etc", "*.key">>,
       <<"eda", "etc", "*.cert">>,
       <<"eda", "etc", "*.key">>,
       <<"gateway", "etc", "*.cert">>,
       <<"gateway", "etc", "*.key">>,
       <<"hub", "etc", "*.cert">>,
       <<"hub", "etc", "*.key">>,
       <<"hub", "etc", "keys", "*.pem">>,
       <<"postgresql", "*.crt">>,
       <<"postgresql", "*.key">>,
       <<"receptor", "etc", "*.crt">>,
       <<"receptor", "etc", "*.key">>,
       <<"receptor", "etc", "*.pem">>,
       <<"redis", "*.crt">>,
       <<"redis", "*.key">> >>

\* the list comprehension of setup
forbidden_paths(root) ==
    [k \in 1..Len(ForbiddenTemplates) |-> path_join(root, ForbiddenTemplates[k])]

podman_commands_swapped ==
    << [cmd |-> "podman ps -a --format json",
        filename |-> <<"podman_ps_all_json">>],
       [cmd |-> "podman info --debug", filename |-> <<"podman_info">>] >>

podman_commands ==
    << [cmd |-> "podman info --debug", filename |-> <<"podman_info">>],
       [cmd |-> "podman ps -a --format json",
        filename |-> <<"podman_ps_all_json">>] >>

aap_processes ==
    { <<"dumb-init", "--", "/usr/bin/envoy">>,
      <<"dumb-init", "--", "/usr/bin/supervisord">>,
      <<"dumb-init", "--", "/usr/bin/launch_awx_web.sh">>,
      <<"dumb-init", "--", "/usr/bin/launch_awx_task.sh">>,
      <<"pulpcore-content", "--name", "pulp-content", "--bind">>,
      <<"dumb-init", "--", "aap-eda-manage">> }

----------------------------------------------------------------------------
(* setup *)

Init ==
    /\ username \in Usernames
    /\ directory \in Directories
    /\ pc = "setup"
    /\ aap_directory_name = <<>>
    /\ calls = <<>>
    /\ cmd_out = NoOutcome
    /\ aap_containers = <<>>
    /\ i = 1
    /\ ps_output = NoOutcome
    /\ ret = FALSE

\* a missing username is logged and setup goes on
CheckUsernameNoReturn ==
    /\ pc = "setup"
    /\ calls' = IF username = ""
                THEN Append(calls, LogError(MsgNoUsername, <<>>))
                ELSE calls
    /\ pc' = "resolve"
    /\ UNCHANGED <<username, directory, aap_directory_name, cmd_out,
                   aap_containers, i, ps_output, ret>>

\* lines 43-47: the username is mandatory
CheckUsername ==
    /\ pc = "setup"
    /\ IF username = ""
       THEN /\ calls' = Append(calls, LogError(MsgNoUsername, <<>>))
            /\ pc' = "done"
       ELSE /\ calls' = calls
            /\ pc' = "resolve"
    /\ UNCHANGED <<username, directory, aap_directory_name, cmd_out,
                   aap_containers, i, ps_output, ret>>

\* the directory is always derived from the home of the user
ResolveDirectoryIgnoringOption ==
    /\ pc = "resolve"
    /\ calls' = Append(calls, [Call("expanduser") EXCEPT !.user = username])
    /\ aap_directory_name' = path_join(HomeOf(username), <<"aap">>)
    /\ pc' = "path_exists"
    /\ UNCHANGED <<username, directory, cmd_out, aap_containers, i,
                   ps_output, ret>>

\* lines 50-54: the installation directory
ResolveDirectory ==
    /\ pc = "resolve"
    /\ IF directory = <<>>
       THEN /\ calls' = Append(calls,
                               [Call("expanduser") EXCEPT !.user = username])
            /\ aap_directory_name' = path_join(HomeOf(username), <<"aap">>)
       ELSE /\ calls' = calls
            /\ aap_directory_name' = directory
    /\ pc' = "path_exists"
    /\ UNCHANGED <<username, directory, cmd_out, aap_containers, i,
                   ps_output, ret>>

\* the directory is collected without the registration of the forbidden paths
PathExistsThenCopy ==
    /\ pc = "path_exists"
    /\ \E exists \in BOOLEAN :
          /\ calls' = Append(calls,
                 [Call("path_exists") EXCEPT
                      !.path = aap_directory_name,
                      !.result = IF exists THEN "True" ELSE "False"])
          /\ pc' = IF exists THEN "copy" ELSE "missing"
    /\ UNCHANGED <<username, directory, aap_directory_name, cmd_out,
                   aap_containers, i, ps_output, ret>>

\* line 57: self.path_exists(aap_directory_name)
PathExists ==
    /\ pc = "path_exists"
    /\ \E exists \in BOOLEAN :
          /\ calls' = Append(calls,
                 [Call("path_exists") EXCEPT
                      !.path = aap_directory_name,
                      !.result = IF exists THEN "True" ELSE "False"])
          /\ pc' = IF exists THEN "forbid" ELSE "missing"
    /\ UNCHANGED <<username, directory, aap_directory_name, cmd_out,
                   aap_containers, i, ps_output, ret>>

\* lines 58-81: self.add_forbidden_path(forbidden_paths)
AddForbiddenPath ==
    /\ pc = "forbid"
    /\ calls' = Append(calls,
           [Call("add_forbidden_path") EXCEPT
                !.paths = forbidden_paths(aap_directory_name)])
    /\ pc' = "copy"
    /\ UNCHANGED <<username, directory, aap_directory_name, cmd_out,
                   aap_containers, i, ps_output, ret>>

\* line 82: self.add_copy_spec(aap_directory_name)
AddCopySpec ==
    /\ pc = "copy"
    /\ calls' = Append(calls,
           [Call("add_copy_spec") EXCEPT !.path = aap_directory_name])
    /\ pc' = "cmds"
    /\ i' = 1
    /\ UNCHANGED <<username, directory, aap_directory_name, cmd_out,
                   aap_containers, ps_output, ret>>

\* a missing directory ends setup
LogMissingDirectoryAndReturn ==
    /\ pc = "missing"
    /\ calls' = Append(calls, LogError(MsgNoDirectory, aap_directory_name))
    /\ pc' = "done"
    /\ UNCHANGED <<username, directory, aap_directory_name, cmd_out,
                   aap_containers, i, ps_output, ret>>

\* lines 83-85: the directory does not exist
LogMissingDirectory ==
    /\ pc = "missing"
    /\ calls' = Append(calls, LogError(MsgNoDirectory, aap_directory_name))
    /\ pc' = "cmds"
    /\ i' = 1
    /\ UNCHANGED <<username, directory, aap_directory_name, cmd_out,
                   aap_containers, ps_output, ret>>

\* lines 94-95: one pass of `for command, filename in podman_commands`
AddCmdOutput ==
    /\ pc = "cmds"
    /\ i <= Len(podman_commands)
    /\ calls' = Append(calls,
           AddCmdOutputCall(username, podman_commands[i].cmd, <<>>,
                            podman_commands[i].filename, ""))
    /\ IF i = Len(podman_commands)
       THEN pc' = "enumerate" /\ i' = 1
       ELSE pc' = pc /\ i' = i + 1
    /\ UNCHANGED <<username, directory, aap_directory_name, cmd_out,
                   aap_containers, ps_output, ret>>

\* lines 115-117: the names in the output of a command that returned
ContainerNames(out) ==
    IF out.status = 0 THEN Split(Strip(out.output), "\n") ELSE <<>>

\* the call of exec_cmd in _get_aap_container_names
ExecNamesCall(user) ==
    [Call("exec_cmd") EXCEPT !.user = user,
                             !.cmd = "podman ps -a --format {{.Names}}"]

\* _get_aap_container_names without the try: the fault leaves setup
get_aap_container_names_uncaught ==
    /\ pc = "enumerate"
    /\ \E out \in ExecOutcomes(SeqsUpTo(OutChars, MaxOutLen)) :
          /\ cmd_out' = out
          /\ calls' = Append(calls, ExecNamesCall(username))
          /\ IF out.raised
             THEN /\ aap_containers' = aap_containers
                  /\ pc' = "faulted"
             ELSE /\ aap_containers' = ContainerNames(out)
                  /\ pc' = "logs"
    /\ i' = 1
    /\ UNCHANGED <<username, directory, aap_directory_name, ps_output, ret>>

\* lines 98, 111-120: aap_containers = self._get_aap_container_names(username)
get_aap_container_names ==
    /\ pc = "enumerate"
    /\ \E out \in ExecOutcomes(SeqsUpTo(OutChars, MaxOutLen)) :
          /\ cmd_out' = out
          /\ IF out.raised
             THEN /\ calls' = calls \o <<ExecNamesCall(username),
                                         LogError(MsgEnumeration, <<>>)>>
                  /\ aap_containers' = <<>>
             ELSE /\ calls' = Append(calls, ExecNamesCall(username))
                  /\ aap_containers' = ContainerNames(out)
    /\ pc' = "logs"
    /\ i' = 1
    /\ UNCHANGED <<username, directory, aap_directory_name, ps_output, ret>>

\* lines 103-108: the request for the log of one container
LogFetchCall(user, container) ==
    AddCmdOutputCall(user, "podman logs", container,
                     Append(container, ".log"), "aap_containers_log")

\* lines 102-108: one pass of `for container in aap_containers`
FetchContainerLog ==
    /\ pc = "logs"
    /\ i <= Len(aap_containers)
    /\ calls' = Append(calls, LogFetchCall(username, aap_containers[i]))
    /\ i' = i + 1
    /\ UNCHANGED <<username, directory, pc, aap_directory_name, cmd_out,
                   aap_containers, ps_output, ret>>

\* line 108: the loop is over, setup returns
SetupReturn ==
    /\ pc = "logs"
    /\ i > Len(aap_containers)
    /\ pc' = "done"
    /\ UNCHANGED <<username, directory, aap_directory_name, calls, cmd_out,
                   aap_containers, i, ps_output, ret>>

Next ==
    \/ CheckUsername
    \/ ResolveDirectory
    \/ PathExists
    \/ AddForbiddenPath
    \/ AddCopySpec
    \/ LogMissingDirectory
    \/ AddCmdOutput
    \/ get_aap_container_names
    \/ FetchContainerLog
    \/ SetupReturn

Spec == Init /\ [][Next]_vars

----------------------------------------------------------------------------
(* check_enabled *)

\* check_enabled reads no option: the options keep their defaults
ProbeInit ==
    /\ username = ""
    /\ directory = <<>>
    /\ pc = "check_enabled"
    /\ aap_directory_name = <<>>
    /\ calls = <<>>
    /\ cmd_out = NoOutcome
    /\ aap_containers = <<>>
    /\ i = 1
    /\ ps_output = NoOutcome
    /\ ret = FALSE

\* line 133: ps_output = self.exec_cmd("ps --noheaders -eo args")
ProbeExecCmd ==
    /\ pc = "check_enabled"
    /\ \E out \in ExecOutcomes(SeqsUpTo(PsWords, MaxPsLen)) :
          /\ ps_output' = out
          /\ pc' = IF out.raised THEN "faulted" ELSE "scan"
    /\ calls' = Append(calls,
           [Call("exec_cmd") EXCEPT !.cmd = "ps --noheaders -eo args"])
    /\ UNCHANGED <<username, directory, aap_directory_name, cmd_out,
                   aap_containers, i, ret>>

\* the status of the command is not looked at
ProbeScanIgnoringStatus ==
    /\ pc = "scan"
    /\ ret' = \E process \in aap_processes :
                  Contains(ps_output.output, process)
    /\ pc' = "returned"
    /\ UNCHANGED <<username, directory, aap_directory_name, calls, cmd_out,
                   aap_containers, i, ps_output>>

\* lines 135-139: the scan of the process table
ProbeScan ==
    /\ pc = "scan"
    /\ ret' = /\ ps_output.status = 0
              /\ \E process \in aap_processes :
                     Contains(ps_output.output, process)
    /\ pc' = "returned"
    /\ UNCHANGED <<username, directory, aap_directory_name, calls, cmd_out,
                   aap_containers, i, ps_output>>

ProbeNext ==
    \/ ProbeExecCmd
    \/ ProbeScan

ProbeSpec == ProbeInit /\ [][ProbeNext]_vars

----------------------------------------------------------------------------
(* Reading the history of calls *)

Idx(op) == {k \in 1..Len(calls) : calls[k].op = op}

IsCapture(c) == c.op = "add_cmd_output" /\ c.subdir = ""

IsLogFetch(c) == c.op = "add_cmd_output" /\ c.subdir = "aap_containers_log"

IsCommand(c) == c.op \in {"add_cmd_output", "exec_cmd"}

IsPrefix(p, s) == Len(p) <= Len(s) /\ SubSeq(s, 1, Len(p)) = p

Range(s) == {s[k] : k \in 1..Len(s)}

NonEmpty(s) == s # <<>>

\* the two fixed capture requests, as the specification words them
InfoCapture == AddCmdOutputCall(username, "podman info --debug", <<>>,
                                <<"podman_info">>, "")

PsCapture == AddCmdOutputCall(username, "podman ps -a --format json", <<>>,
                              <<"podman_ps_all_json">>, "")

\* the installation root the specification prescribes
ExpectedRoot ==
    IF directory # <<>> THEN directory ELSE HomeOf(username) \o <<"aap">>

\* the listing command has been run and has returned
Enumerated == ~cmd_out.raised /\ cmd_out.status >= 0

\* the lines of a text, trimmed, the empty ones left out
NonEmptyTrimmedLines(text) ==
    LET lines == Split(text, "\n")
    IN  SelectSeq([k \in 1..Len(lines) |-> Strip(lines[k])], NonEmpty)

LogFetchesFor(ids) == [k \in 1..Len(ids) |-> LogFetchCall(username, ids[k])]

----------------------------------------------------------------------------
(* Claims *)

\* C1: when the installation root exists, add_forbidden_path (with the full
\* set) is the call right before add_copy_spec of the root; add_copy_spec is
\* never issued without it; each occurs at most once, and in a finished run
\* one occurs iff the other does, iff the root exists.
C1_ForbiddenBeforeCopy ==
    /\ Cardinality(Idx("add_forbidden_path")) <= 1
    /\ Cardinality(Idx("add_copy_spec")) <= 1
    /\ \A k \in Idx("add_copy_spec") :
          /\ k > 1
          /\ calls[k - 1].op = "add_forbidden_path"
          /\ calls[k - 1].paths # <<>>
          /\ \A p \in Range(calls[k - 1].paths) : IsPrefix(calls[k].path, p)
    /\ \A k \in Idx("path_exists") :
          calls[k].result = "True" =>
             /\ Len(calls) > k => calls[k + 1].op = "add_forbidden_path"
             /\ Len(calls) > k + 1 =>
                    /\ calls[k + 2].op = "add_copy_spec"
                    /\ calls[k + 2].path = calls[k].path
    /\ pc = "done" =>
          /\ Idx("add_forbidden_path") # {} <=> Idx("add_copy_spec") # {}
          /\ Idx("add_copy_spec") # {} <=>
                \E k \in Idx("path_exists") : calls[k].result = "True"

C1_Witness ==
    /\ pc = "done"
    /\ \E k \in Idx("add_copy_spec") : calls[k - 1].op = "add_forbidden_path"

\* C2: with an empty username setup records one diagnostic and returns; no
\* other collaborator call occurs, whatever the directory option is.
C2_NoUsernameShortCircuit ==
    username = "" =>
       /\ pc \in {"setup", "done"}
       /\ pc = "setup" => calls = <<>>
       /\ pc = "done" => calls = <<LogError(MsgNoUsername, <<>>)>>

C2_Witness ==
    /\ username = ""
    /\ directory # <<>>
    /\ pc = "done"
    /\ Len(calls) = 1

\* C3: after a listing that returned status 0, the log-fetch requests are
\* exactly one per non-empty trimmed line of the output, in order, each
\* `podman logs <id>` as the user, filename <id>.log, subdir
\* aap_containers_log; blank lines and an empty output give no request.
C3_FanOutPerNonEmptyLine ==
    (pc = "done" /\ Enumerated /\ cmd_out.status = 0) =>
       SelectSeq(calls, IsLogFetch) =
          LogFetchesFor(NonEmptyTrimmedLines(cmd_out.output))

\* C4: after a listing that returned a non-zero status there is no log-fetch
\* request, exactly one diagnostic for the enumeration failure, and setup
\* returns.
C4_NonZeroStatusOneDiagnostic ==
    (Enumerated /\ cmd_out.status # 0) =>
       /\ pc \in {"logs", "done"}
       /\ SelectSeq(calls, IsLogFetch) = <<>>
       /\ Cardinality({k \in Idx("_log_error") :
                          calls[k].msg = MsgEnumeration}) = 1

\* what C5 says of a registered set but for the number of its entries
ForbiddenSetJoinsTemplates(paths, root) ==
    /\ Cardinality(Range(paths)) = Len(paths)
    /\ \A p \in Range(paths) :
          /\ IsPrefix(root, p)
          /\ Len(p) > Len(root)
          /\ \E t \in Range(ForbiddenTemplates) : p = root \o t
    /\ \A t \in Range(ForbiddenTemplates) : root \o t \in Range(paths)
    /\ root \o <<"tls">> \in Range(paths)
    /\ root \o <<"postgresql", "*.crt">> \in Range(paths)

\* C5 as claimed: the set passed to add_forbidden_path has exactly 17
\* entries, each the installation root joined with one fixed template, none
\* outside the root, no template left out or repeated.
C5_SeventeenEntries ==
    \A k \in Idx("add_forbidden_path") :
       /\ Len(calls[k].paths) = 17
       /\ ForbiddenSetJoinsTemplates(calls[k].paths, ExpectedRoot)

\* C5 as amended: the set passed to add_forbidden_path has exactly 18
\* entries, each the installation root joined with one fixed template, none
\* outside the root, no template left out or repeated.
C5_EighteenEntries ==
    \A k \in Idx("add_forbidden_path") :
       /\ Len(calls[k].paths) = 18
       /\ ForbiddenSetJoinsTemplates(calls[k].paths, ExpectedRoot)

C5_Witness ==
    /\ Idx("add_forbidden_path") # {}
    /\ directory = <<>>
    /\ username = "svc"

\* C6: with a username and a missing installation root, setup records a
\* diagnostic naming the path, issues no add_forbidden_path and no
\* add_copy_spec, and the command requests (the two captures, the
\* enumeration, one log fetch per identifier) are the same function of the
\* username and of the enumeration as when the root exists.
C6_MissingRootStillRunsCommands ==
    (pc = "done" /\ username # "") =>
       /\ SelectSeq(calls, IsCommand) =
             <<InfoCapture, PsCapture, ExecNamesCall(username)>>
                \o LogFetchesFor(aap_containers)
       /\ \A k \in Idx("path_exists") :
             calls[k].result = "False" =>
                /\ Idx("add_forbidden_path") = {}
                /\ Idx("add_copy_spec") = {}
                /\ calls[k + 1] = LogError(MsgNoDirectory, calls[k].path)
                /\ Cardinality({j \in Idx("_log_error") :
                                   calls[j].msg = MsgNoDirectory}) = 1

C6_Witness ==
    /\ pc = "done"
    /\ \E k \in Idx("path_exists") : calls[k].result = "False"
    /\ Len(aap_containers) = 2
    /\ Len(SelectSeq(calls, IsLogFetch)) = 2

\* C7: with a username, a non-empty directory option is the installation
\* root verbatim and the home directory is not looked up; otherwise the root
\* is the home directory of the user joined with aap.  The root is the path
\* tested, the path collected and the base of every forbidden path.
C7_RootResolution ==
    (username # "" /\ pc \notin {"setup", "resolve"}) =>
       /\ directory # <<>> =>
             /\ aap_directory_name = directory
             /\ Idx("expanduser") = {}
       /\ directory = <<>> =>
             /\ aap_directory_name = HomeOf(username) \o <<"aap">>
             /\ Cardinality(Idx("expanduser")) = 1
             /\ \A k \in Idx("expanduser") : calls[k].user = username
       /\ \A k \in Idx("path_exists") : calls[k].path = ExpectedRoot
       /\ \A k \in Idx("add_copy_spec") : calls[k].path = ExpectedRoot
       /\ \A k \in Idx("add_forbidden_path") :
             \A p \in Range(calls[k].paths) : IsPrefix(ExpectedRoot, p)

C7_Witness ==
    /\ pc = "done"
    /\ username = "alice"
    /\ directory = <<"srv", "custom">>
    /\ \E k \in Idx("add_copy_spec") : calls[k].path = <<"srv", "custom">>

\* C8: check_enabled runs the process listing exactly once and returns true
\* iff the command ended with status 0 and its output contains one of the
\* six signatures; it returns false without a signature and whenever the
\* command failed, also when the output of the failed command has one.
C8_ActivationProbe ==
    /\ Cardinality(aap_processes) = 6
    /\ pc \in {"scan", "returned"} =>
          calls = <<[Call("exec_cmd") EXCEPT !.cmd = "ps --noheaders -eo args"]>>
    /\ pc = "returned" =>
          (ret <=> /\ ps_output.status = 0
                   /\ \E sig \in aap_processes :
                         \E k \in 1..Len(ps_output.output) :
                            /\ k + Len(sig) - 1 <= Len(ps_output.output)
                            /\ \A j \in 1..Len(sig) :
                                  ps_output.output[k + j - 1] = sig[j])

C8_Witness ==
    /\ pc = "returned"
    /\ ps_output.status # 0
    /\ Contains(ps_output.output,
                <<"pulpcore-content", "--name", "pulp-content", "--bind">>)
    /\ ret = FALSE

\* the calls of a run up to the enumeration, the root existing or not
CallsBeforeEnumeration(exists) ==
    (IF directory = <<>>
     THEN <<[Call("expanduser") EXCEPT !.user = username]>>
     ELSE <<>>)
    \o <<[Call("path_exists") EXCEPT
              !.path = ExpectedRoot,
              !.result = IF exists THEN "True" ELSE "False"]>>
    \o (IF exists
        THEN <<[Call("add_forbidden_path") EXCEPT
                    !.paths = forbidden_paths(ExpectedRoot)],
               [Call("add_copy_spec") EXCEPT !.path = ExpectedRoot]>>
        ELSE <<LogError(MsgNoDirectory, ExpectedRoot)>>)
    \o <<InfoCapture, PsCapture>>

\* C9: when exec_cmd raises in the enumeration, the fault is caught: one
\* diagnostic is recorded, the identifier list is empty, no log fetch is
\* issued, setup returns, and the earlier requests stand as issued.
C9_EnumerationFaultCaught ==
    cmd_out.raised =>
       /\ pc \in {"logs", "done"}
       /\ aap_containers = <<>>
       /\ SelectSeq(calls, IsLogFetch) = <<>>
       /\ \E exists \in BOOLEAN :
             calls = CallsBeforeEnumeration(exists)
                        \o <<ExecNamesCall(username),
                             LogError(MsgEnumeration, <<>>)>>

C9_Witness ==
    /\ cmd_out.raised
    /\ pc = "done"
    /\ Idx("add_copy_spec") # {}

\* C10: with a username, exactly two captures are issued, podman info
\* --debug (podman_info) then podman ps -a --format json
\* (podman_ps_all_json), whatever the root and the enumeration do; both come
\* after the installation-root step and before the enumeration command, and
\* every log fetch comes after the enumeration command.
C10_FixedCapturesOrder ==
    username # "" =>
       /\ IsPrefix(SelectSeq(calls, IsCapture), <<InfoCapture, PsCapture>>)
       /\ pc \in {"enumerate", "logs", "done"} =>
             SelectSeq(calls, IsCapture) = <<InfoCapture, PsCapture>>
       /\ Cardinality(Idx("exec_cmd")) <= 1
       /\ pc \in {"logs", "done"} => Cardinality(Idx("exec_cmd")) = 1
       /\ \A c \in 1..Len(calls) :
             IsCapture(calls[c]) =>
                /\ \E r \in 1..(c - 1) :
                      \/ calls[r].op = "add_copy_spec"
                      \/ calls[r].op = "_log_error" /\ calls[r].msg = MsgNoDirectory
                /\ \A r \in 1..Len(calls) :
                      calls[r].op \in {"expanduser", "path_exists",
                                       "add_forbidden_path", "add_copy_spec"}
                         => r < c
                /\ \A e \in Idx("exec_cmd") : c < e
       /\ \A l \in 1..Len(calls) :
             IsLogFetch(calls[l]) => \E e \in Idx("exec_cmd") : e < l

C10_Witness ==
    /\ pc = "done"
    /\ cmd_out.raised
    /\ \E k \in Idx("path_exists") : calls[k].result = "False"
    /\ SelectSeq(calls, IsCapture) = <<InfoCapture, PsCapture>>

====
